---- MODULE Spec2Model ----
(***************************************************************************)
(* Model of the Bucketeer OpenFeature provider for Node servers            *)
(* (src/src/internal/BucketeerProvider.ts, second definition of the class, *)
(* lines 150-377, with EvaluationContext.ts and BKTEvaluationDetailExt.ts).*)
(*                                                                         *)
(* The provider owns one optional client handle.  Every async method is    *)
(* modelled as the JavaScript run-to-completion steps it consists of: the  *)
(* synchronous part up to its first await, and the continuation after the  *)
(* awaited promise of the wrapped client settles.  The wrapped client, its *)
(* constructor and the values it returns are the environment: their        *)
(* outcomes are drawn from small sets.                                     *)
(***************************************************************************)
EXTENDS Integers, Sequences, FiniteSets, TLC

(***************************************************************************)
(* Bounds of the model.                                                    *)
(***************************************************************************)
MaxClients == 2      \* wrapped clients constructed in one behaviour
MaxInFlight == 2     \* calls of the provider that may overlap
MaxDestroy == 2      \* destroy() calls counted per wrapped client

(***************************************************************************)
(* Program constants.                                                      *)
(***************************************************************************)
SOURCE_ID_OPEN_FEATURE_NODE == 104
DEFAULT_WAIT_FOR_INITIALIZATION_TIMEOUT_MS == 60000
SDK_VERSION == "0.0.2"

(***************************************************************************)
(* JavaScript values.  A value is a record tagged with its kind; this one  *)
(* universe serves JsonValue (defaults), BKTValue (wrapped results) and    *)
(* EvaluationContextValue (context attributes).                            *)
(***************************************************************************)
Undefined == [kind |-> "undefined"]
JNull == [kind |-> "null"]
JString(s) == [kind |-> "string", str |-> s]
JNumber(n) == [kind |-> "number", num |-> n]
JBoolean(b) == [kind |-> "boolean", bool |-> b]
JArray(items) == [kind |-> "array", items |-> items]
JObject(fields) == [kind |-> "object", fields |-> fields]
JDate(y, mo, d, h, mi, s, ms) ==
  [kind |-> "date", year |-> y, month |-> mo, day |-> d,
   hour |-> h, minute |-> mi, second |-> s, milli |-> ms]
Field(k, v) == [key |-> k, value |-> v]

\* typeof v
TypeOf(v) ==
  CASE v.kind = "undefined" -> "undefined"
    [] v.kind = "string" -> "string"
    [] v.kind = "number" -> "number"
    [] v.kind = "boolean" -> "boolean"
    [] OTHER -> "object"        \* null, arrays, plain objects, Dates

\* Array.isArray(v)
IsArray(v) == v.kind = "array"

\* !v : the falsy values of JavaScript
Falsy(v) ==
  \/ v.kind \in {"undefined", "null"}
  \/ v.kind = "string" /\ v.str = ""
  \/ v.kind = "number" /\ v.num = 0
  \/ v.kind = "boolean" /\ ~v.bool

\* obj.key for a plain object: the value of the property, undefined if absent
Prop(obj, k) ==
  IF \E i \in 1..Len(obj.fields) : obj.fields[i].key = k
    THEN obj.fields[CHOOSE i \in 1..Len(obj.fields) : obj.fields[i].key = k].value
    ELSE Undefined

(***************************************************************************)
(* String conversions of JavaScript.                                       *)
(***************************************************************************)
Digit(d) == CASE d = 0 -> "0" [] d = 1 -> "1" [] d = 2 -> "2" [] d = 3 -> "3"
              [] d = 4 -> "4" [] d = 5 -> "5" [] d = 6 -> "6" [] d = 7 -> "7"
              [] d = 8 -> "8" [] d = 9 -> "9"

RECURSIVE Digits(_)
Digits(n) == IF n < 10 THEN Digit(n) ELSE Digits(n \div 10) \o Digit(n % 10)

\* String(n) for an integer n
NumberToString(n) == IF n < 0 THEN "-" \o Digits(0 - n) ELSE Digits(n)

\* n written with at least w digits, zero padded
Pad(n, w) == IF w <= 1 THEN Digits(n)
             ELSE IF n < 10 THEN
               (IF w = 2 THEN "0" ELSE IF w = 3 THEN "00" ELSE "000") \o Digit(n)
             ELSE IF n < 100 THEN
               (IF w = 3 THEN "0" ELSE IF w = 4 THEN "00" ELSE "") \o Digits(n)
             ELSE IF n < 1000 THEN (IF w = 4 THEN "0" ELSE "") \o Digits(n)
             ELSE Digits(n)

\* Date.prototype.toISOString for a valid date
ToISOString(v) ==
  Pad(v.year, 4) \o "-" \o Pad(v.month, 2) \o "-" \o Pad(v.day, 2) \o "T" \o
  Pad(v.hour, 2) \o ":" \o Pad(v.minute, 2) \o ":" \o Pad(v.second, 2) \o "." \o
  Pad(v.milli, 3) \o "Z"

Quote(s) == "\"" \o s \o "\""

RECURSIVE JSONStringify(_)
RECURSIVE JoinItems(_, _)
RECURSIVE JoinFields(_, _)
\* items i..Len of an array, comma separated; undefined is written as null
JoinItems(items, i) ==
  IF i > Len(items) THEN ""
  ELSE (IF i > 1 THEN "," ELSE "") \o
       (IF items[i].kind = "undefined" THEN "null" ELSE JSONStringify(items[i])) \o
       JoinItems(items, i + 1)
\* properties of a plain object; a property whose value is undefined is left out
JoinFields(fields, i) ==
  IF i > Len(fields) THEN ""
  ELSE IF fields[i].value.kind = "undefined" THEN JoinFields(fields, i + 1)
  ELSE LET rest == JoinFields(fields, i + 1)
       IN  Quote(fields[i].key) \o ":" \o JSONStringify(fields[i].value) \o
           (IF rest = "" THEN "" ELSE "," \o rest)
\* JSON.stringify(v) for the strings of the model, none of which needs escaping
JSONStringify(v) ==
  CASE v.kind = "null" -> "null"
    [] v.kind = "string" -> Quote(v.str)
    [] v.kind = "number" -> NumberToString(v.num)
    [] v.kind = "boolean" -> (IF v.bool THEN "true" ELSE "false")
    [] v.kind = "date" -> Quote(ToISOString(v))
    [] v.kind = "array" -> "[" \o JoinItems(v.items, 1) \o "]"
    [] v.kind = "object" -> "{" \o JoinFields(v.fields, 1) \o "}"

\* String(v) for a primitive
PrimitiveToString(v) ==
  CASE v.kind = "string" -> v.str
    [] v.kind = "number" -> NumberToString(v.num)
    [] v.kind = "boolean" -> (IF v.bool THEN "true" ELSE "false")

(***************************************************************************)
(* EvaluationContext.ts                                                    *)
(***************************************************************************)
\* as convertContextValueToString, with null handed to String like a primitive
convertContextValueToString_NullText(value) ==
  IF value.kind = "undefined" THEN ""
  ELSE IF value.kind = "null" THEN "null"
  ELSE IF value.kind = "date" THEN ToISOString(value)
  ELSE IF IsArray(value) THEN JSONStringify(value)
  ELSE IF TypeOf(value) = "object" THEN JSONStringify(value)
  ELSE PrimitiveToString(value)

\* convertContextValueToString(value)
convertContextValueToString(value) ==
  IF value.kind \in {"null", "undefined"} THEN ""
  ELSE IF value.kind = "date" THEN ToISOString(value)
  ELSE IF IsArray(value) THEN JSONStringify(value)
  ELSE IF TypeOf(value) = "object" THEN JSONStringify(value)
  ELSE PrimitiveToString(value)

\* The keys of a context in the order of Object.entries
ContextKeys(evaluationContext) ==
  {evaluationContext.fields[i].key : i \in 1..Len(evaluationContext.fields)}

\* as evaluationContextToBKTUser, refusing only a targeting key that is undefined
evaluationContextToBKTUser_OnlyUndefined(evaluationContext) ==
  LET targetingKey == Prop(evaluationContext, "targetingKey")
      customAttributes ==
        [key \in ContextKeys(evaluationContext) \ {"targetingKey"} |->
           convertContextValueToString(Prop(evaluationContext, key))]
  IN  IF targetingKey = Undefined
        THEN [threw |-> TRUE, error |-> "TargetingKeyMissingError"]
        ELSE [threw |-> FALSE,
              user |-> [id |-> targetingKey, data |-> customAttributes]]

\* Either the user, or the error the function throws
evaluationContextToBKTUser(evaluationContext) ==
  LET targetingKey == Prop(evaluationContext, "targetingKey")
      customAttributes ==
        [key \in ContextKeys(evaluationContext) \ {"targetingKey"} |->
           convertContextValueToString(Prop(evaluationContext, key))]
  IN  IF Falsy(targetingKey)
        THEN [threw |-> TRUE, error |-> "TargetingKeyMissingError"]
        ELSE [threw |-> FALSE,
              user |-> [id |-> targetingKey, data |-> customAttributes]]

(***************************************************************************)
(* BKTEvaluationDetailExt.ts                                               *)
(***************************************************************************)
toResolutionDetails(evaluationDetails) ==
  [value |-> evaluationDetails.variationValue,
   variant |-> evaluationDetails.variationName,
   reason |-> evaluationDetails.reason]

\* as toResolutionDetailsJsonValue, taking the variant from variationId
toResolutionDetailsJsonValue_VariationId(evaluationDetails) ==
  [value |-> evaluationDetails.variationValue,
   variant |-> evaluationDetails.variationId,
   reason |-> evaluationDetails.reason]

toResolutionDetailsJsonValue(evaluationDetails) ==
  [value |-> evaluationDetails.variationValue,
   variant |-> evaluationDetails.variationName,
   reason |-> evaluationDetails.reason]

(***************************************************************************)
(* BucketeerProvider.ts: pure parts                                        *)
(***************************************************************************)
wrongTypeResult(value, errorMessage) ==
  [value |-> value,
   reason |-> "ERROR",
   errorCode |-> "TYPE_MISMATCH",
   errorMessage |-> errorMessage]

\* {...a, ...b}: the properties of a, overridden and extended by those of b
Spread(a, b) ==
  [k \in DOMAIN a \cup DOMAIN b |-> IF k \in DOMAIN b THEN b[k] ELSE a[k]]

\* defineBKTConfig of the wrapped SDK fills in defaults and keeps what is given;
\* its result names the wrapper of the SDK in sdkVersion and sourceId as well
BKTConfigDefaults == [enableLocalEvaluation |-> FALSE]
InternalFields(cfg) ==
  [sdkVersion |-> cfg.wrapperSdkVersion, sourceId |-> cfg.wrapperSdkSourceId]
defineBKTConfig(cfg) == Spread(Spread(BKTConfigDefaults, cfg), InternalFields(cfg))

\* as OverrideConfig, with the caller's configuration spread last: the values
\* the caller gave for the two wrapper fields win
OverrideConfig_CallerWins(userConfig) ==
  defineBKTConfig(Spread(
    [wrapperSdkVersion |-> SDK_VERSION,
     wrapperSdkSourceId |-> SOURCE_ID_OPEN_FEATURE_NODE], userConfig))

\* constructor: the configuration the provider stores
OverrideConfig(userConfig) ==
  defineBKTConfig(Spread(userConfig,
    [wrapperSdkVersion |-> SDK_VERSION,
     wrapperSdkSourceId |-> SOURCE_ID_OPEN_FEATURE_NODE]))

\* as InitializationTimeoutMs, with || in the place of ??: a timeout of 0 is lost
InitializationTimeoutMs_Or(options) ==
  LET given == IF options.kind \in {"undefined", "null"}
                 THEN Undefined
                 ELSE Prop(options, "initializationTimeoutMs")
  IN  IF Falsy(given)
        THEN DEFAULT_WAIT_FOR_INITIALIZATION_TIMEOUT_MS
        ELSE given.num

\* constructor: options?.initializationTimeoutMs ?? DEFAULT_...
InitializationTimeoutMs(options) ==
  LET given == IF options.kind \in {"undefined", "null"}
                 THEN Undefined
                 ELSE Prop(options, "initializationTimeoutMs")
  IN  IF given.kind \in {"undefined", "null"}
        THEN DEFAULT_WAIT_FOR_INITIALIZATION_TIMEOUT_MS
        ELSE given.num

\* as DefaultIsInvalid, without the test for null (typeof null is "object")
DefaultIsInvalid_NoNull(defaultValue) == TypeOf(defaultValue) # "object"

\* as DefaultIsInvalid, refusing arrays as well: the guard TYPE_SAFETY_ISSUE.md
\* prints
DefaultIsInvalid_PlainOnly(defaultValue) ==
  \/ defaultValue.kind = "null"
  \/ TypeOf(defaultValue) # "object"
  \/ IsArray(defaultValue)

\* resolveObjectEvaluation, early guard on the default value
DefaultIsInvalid(defaultValue) ==
  defaultValue.kind = "null" \/ TypeOf(defaultValue) # "object"

DefaultGuardResult(defaultValue) ==
  wrongTypeResult(defaultValue,
    "Default value must be an object or array but got " \o
      (IF defaultValue.kind = "null" THEN "null" ELSE TypeOf(defaultValue)))

\* as ValidateObjectDetails, without step 1: null is taken for an object
ValidateObjectDetails_NoNullCheck(defaultValue, evaluationDetails) ==
  IF TypeOf(evaluationDetails.variationValue) = "object"
    THEN LET resultIsJsonArray == IsArray(evaluationDetails.variationValue)
             defaultIsJsonArray == IsArray(defaultValue)
         IN  IF resultIsJsonArray # defaultIsJsonArray
               THEN wrongTypeResult(defaultValue,
                      "Expected " \o (IF defaultIsJsonArray THEN "array" ELSE "object") \o
                      " but got " \o (IF resultIsJsonArray THEN "array" ELSE "object"))
               ELSE toResolutionDetailsJsonValue(evaluationDetails)
  ELSE wrongTypeResult(defaultValue,
         "Expected object but got " \o TypeOf(evaluationDetails.variationValue))

\* as ValidateObjectDetails, with the two shapes of the step 4 message exchanged
ValidateObjectDetails_Swapped(defaultValue, evaluationDetails) ==
  IF evaluationDetails.variationValue.kind = "null"
    THEN wrongTypeResult(defaultValue, "Expected object but got null")
  ELSE IF TypeOf(evaluationDetails.variationValue) = "object"
    THEN LET resultIsJsonArray == IsArray(evaluationDetails.variationValue)
             defaultIsJsonArray == IsArray(defaultValue)
         IN  IF resultIsJsonArray # defaultIsJsonArray
               THEN wrongTypeResult(defaultValue,
                      "Expected " \o (IF resultIsJsonArray THEN "array" ELSE "object") \o
                      " but got " \o (IF defaultIsJsonArray THEN "array" ELSE "object"))
               ELSE toResolutionDetailsJsonValue(evaluationDetails)
  ELSE wrongTypeResult(defaultValue,
         "Expected object but got " \o TypeOf(evaluationDetails.variationValue))

\* as ValidateObjectDetails, with step 5 handing back the value it rejects
ValidateObjectDetails_WrappedValue(defaultValue, evaluationDetails) ==
  IF evaluationDetails.variationValue.kind = "null"
    THEN wrongTypeResult(defaultValue, "Expected object but got null")
  ELSE IF TypeOf(evaluationDetails.variationValue) = "object"
    THEN LET resultIsJsonArray == IsArray(evaluationDetails.variationValue)
             defaultIsJsonArray == IsArray(defaultValue)
         IN  IF resultIsJsonArray # defaultIsJsonArray
               THEN wrongTypeResult(defaultValue,
                      "Expected " \o (IF defaultIsJsonArray THEN "array" ELSE "object") \o
                      " but got " \o (IF resultIsJsonArray THEN "array" ELSE "object"))
               ELSE toResolutionDetailsJsonValue(evaluationDetails)
  ELSE wrongTypeResult(evaluationDetails.variationValue,
         "Expected object but got " \o TypeOf(evaluationDetails.variationValue))

\* resolveObjectEvaluation, steps 1 to 5 on the details the wrapped client returned
ValidateObjectDetails(defaultValue, evaluationDetails) ==
  IF evaluationDetails.variationValue.kind = "null"
    THEN wrongTypeResult(defaultValue, "Expected object but got null")
  ELSE IF TypeOf(evaluationDetails.variationValue) = "object"
    THEN LET resultIsJsonArray == IsArray(evaluationDetails.variationValue)
             defaultIsJsonArray == IsArray(defaultValue)
         IN  IF resultIsJsonArray # defaultIsJsonArray
               THEN wrongTypeResult(defaultValue,
                      "Expected " \o (IF defaultIsJsonArray THEN "array" ELSE "object") \o
                      " but got " \o (IF resultIsJsonArray THEN "array" ELSE "object"))
               ELSE toResolutionDetailsJsonValue(evaluationDetails)
  ELSE wrongTypeResult(defaultValue,
         "Expected object but got " \o TypeOf(evaluationDetails.variationValue))

(***************************************************************************)
(* Errors                                                                  *)
(***************************************************************************)
\* What the wrapped SDK may throw: an Error with a name, or any other value
TimeoutError == [isError |-> TRUE, name |-> "TimeoutError", message |-> "Timeout"]
InitFailed == [isError |-> TRUE, name |-> "Error", message |-> "Init failed"]
ThrownString == [isError |-> FALSE, name |-> "", message |-> "failure"]
Thrown == {TimeoutError, InitFailed, ThrownString}

\* the call of the wrapped SDK returned normally
Ok == [ok |-> TRUE]

\* `${error}`
ErrorToString(error) ==
  IF error.isError THEN error.name \o ": " \o error.message ELSE error.message

\* as IsTimeoutError, classifying by the message in the place of the name
IsTimeoutError_ByMessage(error) == error.isError /\ error.message = "TimeoutError"

\* initialize, the test of the catch clause
IsTimeoutError(error) == error.isError /\ error.name = "TimeoutError"

\* How a call of the provider settles
Resolved == [status |-> "resolved"]
ResolvedWith(details) == [status |-> "resolved", details |-> details]
Rejected(error, message) == [status |-> "rejected", error |-> error, message |-> message]

(***************************************************************************)
(* State                                                                   *)
(***************************************************************************)
VARIABLES
  ctor,                     \* the arguments the provider was constructed with
  config,                   \* this.config
  initializationTimeoutMs,  \* this.initializationTimeoutMs
  client,                   \* this.client: 0 is undefined, else a wrapped client
  clients,                  \* the wrapped clients constructed so far, by identity
  calls,                    \* the calls of the provider suspended at an await
  lifecycle,                \* what happened last to the handle: "constructed" (never
                            \* set), "initialize" (set, the wait is pending), "ready",
                            \* "failed", "closed", "closeFailed"
  last,                     \* the call that settled last, with what it did
  previous                  \* SpecTwice only: the resolve call that had settled last
                            \* when the resolve call of last was made

vars ==
  <<ctor, config, initializationTimeoutMs, client, clients, calls, lifecycle, last,
    previous>>

Slots == 1..MaxInFlight
Idle == [pc |-> "idle"]
NoCall == [op |-> "none"]
NoClient == 0

InFlight == {s \in Slots : calls[s] # Idle}
\* a new call takes the first free slot
FreeSlot(s) == calls[s] = Idle /\ \A r \in Slots : r < s => calls[r] # Idle

(***************************************************************************)
(* Inputs                                                                  *)
(***************************************************************************)
BaseConfig ==
  [apiKey |-> "test-api-key", apiEndpoint |-> "http://test-endpoint",
   featureTag |-> "test-tag"]
\* a caller that sets the two wrapper fields itself
SpoofedConfig ==
  Spread(BaseConfig, [wrapperSdkVersion |-> "9.9.9", wrapperSdkSourceId |-> 1,
                      enableLocalEvaluation |-> TRUE])
TimeoutOption(ms) == JObject(<<Field("initializationTimeoutMs", JNumber(ms))>>)
ConstructorArgs ==
  {[config |-> BaseConfig, options |-> Undefined],
   [config |-> SpoofedConfig, options |-> TimeoutOption(5000)],
   [config |-> BaseConfig, options |-> TimeoutOption(0)],
   [config |-> SpoofedConfig, options |-> JObject(<<>>)]}

UserContext ==
  JObject(<<Field("targetingKey", JString("test-user")),
            Field("email", JString("test@example.com")),
            Field("age", JNumber(30))>>)
NoKeyContext == JObject(<<Field("email", JString("test@example.com"))>>)
EmptyKeyContext == JObject(<<Field("targetingKey", JString(""))>>)
InitContexts == {Undefined, JNull, UserContext, NoKeyContext}
ResolveContexts == {UserContext, NoKeyContext, EmptyKeyContext}

FlagKeys == {"test-flag"}

ObjectDefault == JObject(<<Field("default", JBoolean(TRUE))>>)
ArrayDefault == JArray(<<JString("a"), JString("b")>>)
ObjectDefaults ==
  {JNull, JString("primitive"), JNumber(42), JBoolean(TRUE),
   ObjectDefault, ArrayDefault}
DefaultsOf(op) ==
  CASE op = "resolveBooleanEvaluation" -> {JBoolean(FALSE)}
    [] op = "resolveStringEvaluation" -> {JString("default")}
    [] op = "resolveNumberEvaluation" -> {JNumber(0)}
    [] op = "resolveObjectEvaluation" -> ObjectDefaults

ResolveOps ==
  {"resolveBooleanEvaluation", "resolveStringEvaluation",
   "resolveNumberEvaluation", "resolveObjectEvaluation"}

\* the operation of the wrapped client a resolve method calls
VariationMethod(op) ==
  CASE op = "resolveBooleanEvaluation" -> "booleanVariationDetails"
    [] op = "resolveStringEvaluation" -> "stringVariationDetails"
    [] op = "resolveNumberEvaluation" -> "numberVariationDetails"
    [] op = "resolveObjectEvaluation" -> "objectVariationDetails"

\* values the wrapped client may return; the nested ones mix element kinds
NestedObject ==
  JObject(<<Field("key", JString("value")),
            Field("list", JArray(<<JNumber(1), JString("x"), JNull>>))>>)
MixedArray == JArray(<<JNumber(1), JString("x"), JObject(<<Field("k", JNull)>>)>>)
VariationValues ==
  {JNull, JString("not-an-object"), JNumber(7), JBoolean(FALSE),
   NestedObject, MixedArray}
VariationNames == {"variation-a"}
Reasons == {"CLIENT", "DEFAULT"}
EvalFailed == [isError |-> TRUE, name |-> "Error", message |-> "evaluation failed"]

\* the BKTEvaluationDetails the wrapped client answers a request with
EvaluationDetails(request, value, name, reason) ==
  [featureId |-> request.flagKey, featureVersion |-> 1,
   userId |-> request.user.id, variationId |-> "variation-id",
   variationValue |-> value, variationName |-> name, reason |-> reason]

(***************************************************************************)
(* constructor                                                             *)
(***************************************************************************)
Init ==
  /\ ctor \in ConstructorArgs
  /\ config = OverrideConfig(ctor.config)
  /\ initializationTimeoutMs = InitializationTimeoutMs(ctor.options)
  /\ client = NoClient
  /\ clients = <<>>
  /\ calls = [s \in Slots |-> Idle]
  /\ lifecycle = "constructed"
  /\ last = NoCall
  /\ previous = NoCall

(***************************************************************************)
(* initialize                                                              *)
(***************************************************************************)
\* as InitializeCatch, emitting Ready and then Error when the failure is fatal
InitializeCatch_BothSignals(error) ==
  IF IsTimeoutError(error)
    THEN [emitted |-> <<"Ready">>, outcome |-> Resolved]
    ELSE [emitted |-> <<"Ready", "Error">>,
          outcome |-> Rejected("ProviderFatalError",
            "Failed to initialize Bucketeer client: " \o ErrorToString(error))]

\* as InitializeCatch, emitting nothing when the failure is fatal
InitializeCatch_NoSignal(error) ==
  IF IsTimeoutError(error)
    THEN [emitted |-> <<"Ready">>, outcome |-> Resolved]
    ELSE [emitted |-> <<>>,
          outcome |-> Rejected("ProviderFatalError",
            "Failed to initialize Bucketeer client: " \o ErrorToString(error))]

\* the catch clause of initialize: the signal emitted and how the call settles
InitializeCatch(error) ==
  IF IsTimeoutError(error)
    THEN [emitted |-> <<"Ready">>, outcome |-> Resolved]
    ELSE [emitted |-> <<"Error">>,
          outcome |-> Rejected("ProviderFatalError",
            "Failed to initialize Bucketeer client: " \o ErrorToString(error))]

\* the record of a settled initialize
InitializeRecord(context, clientBefore, builtBefore, construction, built, waits, wait,
                 emitted, outcome, after) ==
  [op |-> "initialize", context |-> context,
   clientBefore |-> clientBefore, clientAfter |-> after,
   builtBefore |-> builtBefore, construction |-> construction, built |-> built,
   waits |-> waits, wait |-> wait, emitted |-> emitted, outcome |-> outcome]

\* as ContextMissing, testing context === null only
ContextMissing_OnlyNull(context) == context.kind = "null"

\* initialize: if (!context)
ContextMissing(context) == Falsy(context)

\* as AssignClient, with the assignment left out: the handle keeps its value
AssignClient_Skipped(constructed) == client

\* initialize: this.client = client
AssignClient(constructed) == constructed

\* initialize(context) up to its await.  construction is Ok or what
\* initializeBKTClient throws.
InitializeStart(s, context, construction) ==
  /\ FreeSlot(s)
  /\ IF ContextMissing(context)
       THEN /\ last' = InitializeRecord(context, client, Len(clients), Undefined,
                         NoClient, <<>>, Undefined, <<>>,
                         Rejected("InvalidContextError", "context is required"),
                         client)
            /\ UNCHANGED <<client, clients, calls, lifecycle>>
     ELSE IF construction # Ok
       THEN /\ last' = InitializeRecord(context, client, Len(clients), construction,
                         NoClient, <<>>, Undefined,
                         InitializeCatch(construction).emitted,
                         InitializeCatch(construction).outcome, client)
            /\ UNCHANGED <<client, clients, calls, lifecycle>>
     ELSE /\ Len(clients) < MaxClients
          /\ LET new == Len(clients) + 1
             IN  /\ clients' = Append(clients,
                       [config |-> config, waits |-> <<initializationTimeoutMs>>,
                        destroyed |-> 0])
                 /\ client' = AssignClient(new)
                 /\ calls' = [calls EXCEPT ![s] =
                       [pc |-> "waitForInitialization", op |-> "initialize",
                        context |-> context, client |-> new,
                        clientBefore |-> client, builtBefore |-> Len(clients),
                        waits |-> <<[client |-> new,
                                     timeout |-> initializationTimeoutMs]>>]]
          /\ lifecycle' = "initialize"
          /\ last' = NoCall
  /\ UNCHANGED <<ctor, config, initializationTimeoutMs, previous>>

\* initialize after the await.  wait is Ok or what waitForInitialization
\* failed with.
InitializeSettle(s, wait) ==
  /\ calls[s].pc = "waitForInitialization"
  /\ LET call == calls[s]
         done == IF wait = Ok
                   THEN [emitted |-> <<"Ready">>, outcome |-> Resolved]
                   ELSE InitializeCatch(wait)
     IN  /\ last' = InitializeRecord(call.context, call.clientBefore, call.builtBefore,
                   Ok, call.client, call.waits, wait, done.emitted, done.outcome,
                   client)
         /\ lifecycle' = IF lifecycle \in {"closed", "closeFailed"} THEN lifecycle
                         ELSE IF done.outcome = Resolved THEN "ready"
                         ELSE "failed"
  /\ calls' = [calls EXCEPT ![s] = Idle]
  /\ UNCHANGED <<ctor, config, initializationTimeoutMs, client, clients, previous>>

(***************************************************************************)
(* onClose                                                                 *)
(***************************************************************************)
DestroyFailed == [isError |-> TRUE, name |-> "Error", message |-> "destroy failed"]

\* as ClearClient, with the assignment left out: the handle keeps its value
ClearClient_Kept == client

\* onClose: this.client = undefined
ClearClient == NoClient

\* onClose().  It has no await: it runs in one step.  destroy is Ok or what
\* client.destroy() throws.
OnClose(destroy) ==
  /\ IF client = NoClient
       THEN /\ last' = [op |-> "onClose", clientBefore |-> client,
                        clientAfter |-> NoClient, destroyed |-> <<>>,
                        emitted |-> <<>>, outcome |-> Resolved]
            /\ lifecycle' = "closed"
            /\ UNCHANGED <<client, clients>>
     ELSE /\ clients[client].destroyed < MaxDestroy
          /\ clients' = [clients EXCEPT ![client].destroyed = @ + 1]
          /\ IF destroy = Ok
               THEN /\ client' = ClearClient
                    /\ lifecycle' = "closed"
                    /\ last' = [op |-> "onClose", clientBefore |-> client,
                                clientAfter |-> NoClient, destroyed |-> <<client>>,
                                emitted |-> <<>>, outcome |-> Resolved]
               ELSE /\ client' = client
                    /\ lifecycle' = "closeFailed"
                    /\ last' = [op |-> "onClose", clientBefore |-> client,
                                clientAfter |-> client, destroyed |-> <<client>>,
                                emitted |-> <<>>,
                                outcome |-> Rejected(destroy.name, destroy.message)]
  /\ UNCHANGED <<ctor, config, initializationTimeoutMs, calls, previous>>

(***************************************************************************)
(* requiredBKTClient and the resolve methods                               *)
(***************************************************************************)
\* as requiredBKTClient, throwing without emitting the Error signal
requiredBKTClient_Silent ==
  IF client = NoClient
    THEN [threw |-> TRUE, emitted |-> <<>>, error |-> "ProviderNotReadyError",
          message |-> "Bucketeer client is not initialized"]
    ELSE [threw |-> FALSE, emitted |-> <<>>, client |-> client]

\* requiredBKTClient(): the client, or the signal emitted and the error thrown
requiredBKTClient ==
  IF client = NoClient
    THEN [threw |-> TRUE, emitted |-> <<"Error">>, error |-> "ProviderNotReadyError",
          message |-> "Bucketeer client is not initialized"]
    ELSE [threw |-> FALSE, emitted |-> <<>>, client |-> client]

\* the record of a settled resolve call
ResolveRecord(op, flagKey, defaultValue, context, calledIn, clientBefore, emitted,
              requests, wrapped, outcome, after) ==
  [op |-> op, flagKey |-> flagKey, defaultValue |-> defaultValue,
   context |-> context, calledIn |-> calledIn,
   clientBefore |-> clientBefore, clientAfter |-> after,
   emitted |-> emitted, requests |-> requests, wrapped |-> wrapped,
   outcome |-> outcome]

\* as EarlyGuard, with the guard left out
EarlyGuard_Never(op, defaultValue) == FALSE

\* resolveObjectEvaluation only: the early guard on the default value
EarlyGuard(op, defaultValue) ==
  op = "resolveObjectEvaluation" /\ DefaultIsInvalid(defaultValue)

\* as ResolveStart, converting the context before asking for the client: the
\* targeting key is checked before readiness
ResolveStart_KeyFirst(s, op, flagKey, defaultValue, context) ==
  /\ FreeSlot(s)
  /\ LET required == requiredBKTClient
         converted == evaluationContextToBKTUser(context)
     IN  IF EarlyGuard(op, defaultValue)
           THEN /\ last' = ResolveRecord(op, flagKey, defaultValue, context, lifecycle,
                             client,
                             <<>>, <<>>, Undefined,
                             ResolvedWith(DefaultGuardResult(defaultValue)), client)
                /\ UNCHANGED calls
         ELSE IF converted.threw
           THEN /\ last' = ResolveRecord(op, flagKey, defaultValue, context, lifecycle,
                             client,
                             <<>>, <<>>, Undefined,
                             Rejected(converted.error, "targetingKey is required"),
                             client)
                /\ UNCHANGED calls
         ELSE IF required.threw
           THEN /\ last' = ResolveRecord(op, flagKey, defaultValue, context, lifecycle,
                             client,
                             required.emitted, <<>>, Undefined,
                             Rejected(required.error, required.message), client)
                /\ UNCHANGED calls
         ELSE /\ calls' = [calls EXCEPT ![s] =
                   [pc |-> "variationDetails", op |-> op, flagKey |-> flagKey,
                    defaultValue |-> defaultValue, context |-> context,
                    calledIn |-> lifecycle,
                    client |-> required.client, clientBefore |-> client,
                    emitted |-> required.emitted,
                    requests |-> <<[client |-> required.client,
                                    method |-> VariationMethod(op),
                                    user |-> converted.user, flagKey |-> flagKey,
                                    defaultValue |-> defaultValue]>>]]
              /\ last' = NoCall
  /\ UNCHANGED <<ctor, config, initializationTimeoutMs, client, clients, lifecycle>>

\* a resolve method up to its await.  The specification says what previous
\* becomes.
ResolveStart(s, op, flagKey, defaultValue, context) ==
  /\ FreeSlot(s)
  /\ LET required == requiredBKTClient
         converted == evaluationContextToBKTUser(context)
     IN  IF EarlyGuard(op, defaultValue)
           THEN /\ last' = ResolveRecord(op, flagKey, defaultValue, context, lifecycle,
                             client,
                             <<>>, <<>>, Undefined,
                             ResolvedWith(DefaultGuardResult(defaultValue)), client)
                /\ UNCHANGED calls
         ELSE IF required.threw
           THEN /\ last' = ResolveRecord(op, flagKey, defaultValue, context, lifecycle,
                             client,
                             required.emitted, <<>>, Undefined,
                             Rejected(required.error, required.message), client)
                /\ UNCHANGED calls
         ELSE IF converted.threw
           THEN /\ last' = ResolveRecord(op, flagKey, defaultValue, context, lifecycle,
                             client,
                             required.emitted, <<>>, Undefined,
                             Rejected(converted.error, "targetingKey is required"),
                             client)
                /\ UNCHANGED calls
         ELSE /\ calls' = [calls EXCEPT ![s] =
                   [pc |-> "variationDetails", op |-> op, flagKey |-> flagKey,
                    defaultValue |-> defaultValue, context |-> context,
                    calledIn |-> lifecycle,
                    client |-> required.client, clientBefore |-> client,
                    emitted |-> required.emitted,
                    requests |-> <<[client |-> required.client,
                                    method |-> VariationMethod(op),
                                    user |-> converted.user, flagKey |-> flagKey,
                                    defaultValue |-> defaultValue]>>]]
              /\ last' = NoCall
  /\ UNCHANGED <<ctor, config, initializationTimeoutMs, client, clients, lifecycle>>

\* as ResolveResult, answering the default when the method is called a second
\* time in a row
ResolveResult_SecondTime(op, defaultValue, evaluationDetails) ==
  IF previous.op = op
    THEN wrongTypeResult(defaultValue, "called twice")
    ELSE IF op = "resolveObjectEvaluation"
      THEN ValidateObjectDetails(defaultValue, evaluationDetails)
      ELSE toResolutionDetails(evaluationDetails)

\* as ResolveResult, with the validation of resolveObjectEvaluation applied by
\* the four methods
ResolveResult_Validated(op, defaultValue, evaluationDetails) ==
  ValidateObjectDetails(defaultValue, evaluationDetails)

\* what a resolve method returns for the details the wrapped client answered
ResolveResult(op, defaultValue, evaluationDetails) ==
  IF op = "resolveObjectEvaluation"
    THEN ValidateObjectDetails(defaultValue, evaluationDetails)
    ELSE toResolutionDetails(evaluationDetails)

\* as ResolveSettle, asking for the handle again after the await: the call
\* raises ProviderNotReadyError when the handle was cleared meanwhile
ResolveSettle_GateAgain(s, value, name, reason) ==
  /\ calls[s].pc = "variationDetails"
  /\ LET call == calls[s]
         evaluationDetails == EvaluationDetails(call.requests[1], value, name, reason)
     IN  last' = ResolveRecord(call.op, call.flagKey, call.defaultValue, call.context,
                   call.calledIn, call.clientBefore, call.emitted, call.requests,
                   evaluationDetails,
                   IF requiredBKTClient.threw
                     THEN Rejected(requiredBKTClient.error, requiredBKTClient.message)
                     ELSE ResolvedWith(ResolveResult(call.op, call.defaultValue,
                                                     evaluationDetails)),
                   client)
  /\ calls' = [calls EXCEPT ![s] = Idle]
  /\ UNCHANGED <<ctor, config, initializationTimeoutMs, client, clients, lifecycle,
                 previous>>

\* a resolve method after its await: the wrapped client answered with details
ResolveSettle(s, value, name, reason) ==
  /\ calls[s].pc = "variationDetails"
  /\ LET call == calls[s]
         evaluationDetails == EvaluationDetails(call.requests[1], value, name, reason)
     IN  last' = ResolveRecord(call.op, call.flagKey, call.defaultValue, call.context,
                   call.calledIn, call.clientBefore, call.emitted, call.requests, evaluationDetails,
                   ResolvedWith(ResolveResult(call.op, call.defaultValue,
                                              evaluationDetails)), client)
  /\ calls' = [calls EXCEPT ![s] = Idle]
  /\ UNCHANGED <<ctor, config, initializationTimeoutMs, client, clients, lifecycle,
                 previous>>

\* as ResolveFail, with a resolve method that drops the handle when the wrapped
\* client rejects
ResolveFail_ClearsClient(s, error) ==
  /\ calls[s].pc = "variationDetails"
  /\ LET call == calls[s]
     IN  last' = ResolveRecord(call.op, call.flagKey, call.defaultValue, call.context,
                   call.calledIn, call.clientBefore, call.emitted, call.requests, Undefined,
                   Rejected(error.name, error.message), NoClient)
  /\ calls' = [calls EXCEPT ![s] = Idle]
  /\ client' = NoClient
  /\ UNCHANGED <<ctor, config, initializationTimeoutMs, clients, lifecycle, previous>>

\* a resolve method after its await: the promise of the wrapped client rejected
ResolveFail(s, error) ==
  /\ calls[s].pc = "variationDetails"
  /\ LET call == calls[s]
     IN  last' = ResolveRecord(call.op, call.flagKey, call.defaultValue, call.context,
                   call.calledIn, call.clientBefore, call.emitted, call.requests, Undefined,
                   Rejected(error.name, error.message), client)
  /\ calls' = [calls EXCEPT ![s] = Idle]
  /\ UNCHANGED <<ctor, config, initializationTimeoutMs, client, clients, lifecycle,
                 previous>>

(***************************************************************************)
(* Specifications                                                          *)
(***************************************************************************)
\* The calls are issued one at a time: the caller awaits each call before the
\* next, as section 5 of the specification assumes.
Initialize ==
  \E s \in Slots, context \in InitContexts, construction \in {Ok} \cup Thrown :
    InFlight = {} /\ InitializeStart(s, context, construction)
InitializeDone ==
  \E s \in Slots, wait \in {Ok} \cup Thrown : InitializeSettle(s, wait)
Close ==
  \E destroy \in {Ok, DestroyFailed} : InFlight = {} /\ OnClose(destroy)
Resolve ==
  \E s \in Slots, op \in ResolveOps, flagKey \in FlagKeys, context \in ResolveContexts :
    \E defaultValue \in DefaultsOf(op) :
      /\ InFlight = {}
      /\ ResolveStart(s, op, flagKey, defaultValue, context)
      /\ UNCHANGED previous
ResolveDone ==
  \E s \in Slots, value \in VariationValues, name \in VariationNames, reason \in Reasons :
    ResolveSettle(s, value, name, reason)
ResolveFailed ==
  \E s \in Slots : ResolveFail(s, EvalFailed)

Next ==
  \/ Initialize
  \/ InitializeDone
  \/ Close
  \/ Resolve
  \/ ResolveDone
  \/ ResolveFailed

Spec == Init /\ [][Next]_vars

\* The calls overlap: a call may be issued while others are suspended at their
\* await, and the suspended calls resume in any order.  Nothing in the provider
\* prevents it.  The provider is constructed in one way and the inputs are
\* fewer than above.
OverlapOps == {"resolveObjectEvaluation"}
OverlapDefaults(op) ==
  IF op = "resolveObjectEvaluation" THEN {ObjectDefault} ELSE DefaultsOf(op)
OverlapValues == {JNull, NestedObject}

InitOverlapping ==
  /\ ctor = [config |-> BaseConfig, options |-> Undefined]
  /\ config = OverrideConfig(ctor.config)
  /\ initializationTimeoutMs = InitializationTimeoutMs(ctor.options)
  /\ client = NoClient
  /\ clients = <<>>
  /\ calls = [s \in Slots |-> Idle]
  /\ lifecycle = "constructed"
  /\ last = NoCall
  /\ previous = NoCall

InitializeOverlapping ==
  \E s \in Slots, construction \in {Ok, TimeoutError} :
    InitializeStart(s, UserContext, construction)
InitializeDoneOverlapping ==
  \E s \in Slots, wait \in {Ok, InitFailed} : InitializeSettle(s, wait)
CloseOverlapping == OnClose(Ok)
ResolveOverlapping ==
  \E s \in Slots, op \in OverlapOps, flagKey \in FlagKeys :
    \E defaultValue \in OverlapDefaults(op) :
      ResolveStart(s, op, flagKey, defaultValue, UserContext) /\ UNCHANGED previous
ResolveDoneOverlapping ==
  \E s \in Slots, value \in OverlapValues, name \in VariationNames :
    ResolveSettle(s, value, name, "CLIENT")
ResolveFailedOverlapping ==
  \E s \in Slots : ResolveFail(s, EvalFailed)

NextOverlapping ==
  \/ InitializeOverlapping
  \/ InitializeDoneOverlapping
  \/ CloseOverlapping
  \/ ResolveOverlapping
  \/ ResolveDoneOverlapping
  \/ ResolveFailedOverlapping

SpecOverlapping == InitOverlapping /\ [][NextOverlapping]_vars

\* The calls are issued one at a time and previous is kept: when a resolve call
\* is made, previous becomes the resolve call that settled last, if no other
\* call settled after it.  The provider is constructed in one way and the
\* inputs are fewer than in Spec.
TwiceOps == {"resolveBooleanEvaluation", "resolveObjectEvaluation"}
TwiceFlagKeys == {"test-flag", "other-flag"}
TwiceContexts == {UserContext, NoKeyContext}
TwiceDefaults(op) ==
  IF op = "resolveObjectEvaluation"
    THEN {ObjectDefault, JString("primitive")}
    ELSE DefaultsOf(op)
TwiceValues == {JNull, JString("not-an-object"), NestedObject}

InitializeTwice ==
  \E s \in Slots :
    InFlight = {} /\ InitializeStart(s, UserContext, Ok)
InitializeDoneTwice ==
  \E s \in Slots, wait \in {Ok, InitFailed} : InitializeSettle(s, wait)
CloseTwice == InFlight = {} /\ OnClose(Ok)
ResolveTwice ==
  \E s \in Slots, op \in TwiceOps, flagKey \in TwiceFlagKeys,
     context \in TwiceContexts :
    \E defaultValue \in TwiceDefaults(op) :
      /\ InFlight = {}
      /\ ResolveStart(s, op, flagKey, defaultValue, context)
      /\ previous' = IF last.op \in ResolveOps THEN last ELSE NoCall
ResolveDoneTwice ==
  \E s \in Slots, value \in TwiceValues, name \in VariationNames :
    ResolveSettle(s, value, name, "CLIENT")
ResolveFailedTwice ==
  \E s \in Slots : ResolveFail(s, EvalFailed)

NextTwice ==
  \/ InitializeTwice
  \/ InitializeDoneTwice
  \/ CloseTwice
  \/ ResolveTwice
  \/ ResolveDoneTwice
  \/ ResolveFailedTwice

SpecTwice == InitOverlapping /\ [][NextTwice]_vars

(***************************************************************************)
(* The two functions of EvaluationContext.ts called on their own, as the   *)
(* unit tests call them, with the values and attributes of those tests.    *)
(***************************************************************************)
MaxAttributes == 2   \* attributes of a context besides the targeting key

RegisteredAt == JDate(2023, 1, 1, 0, 0, 0, 0)
Interests == JArray(<<JString("sports"), JString("music"), JString("books")>>)
Address ==
  JObject(<<Field("city", JString("San Francisco")), Field("country", JString("USA"))>>)
Complex ==
  JObject(<<Field("arr", JArray(<<JNumber(1), JNumber(2), JNumber(3)>>)),
            Field("nested", JObject(<<Field("a", JNumber(1)),
                                      Field("b", JBoolean(TRUE))>>))>>)

Profile ==
  JObject(<<Field("details",
              JObject(<<Field("preferences",
                          JArray(<<JString("dark mode"), JString("notifications")>>)),
                        Field("settings",
                          JObject(<<Field("theme", JString("dark")),
                                    Field("notifications", JBoolean(TRUE))>>))>>)),
            Field("lastLogin", RegisteredAt)>>)

ContextValues ==
  {JNull, Undefined, RegisteredAt, Interests, Address, Complex,
   JNumber(123), JBoolean(TRUE), JBoolean(FALSE), JString("already a string")}

ContextAttributes ==
  {Field("email", JString("user@example.com")),
   Field("age", JNumber(30)),
   Field("isPremium", JBoolean(TRUE)),
   Field("registeredAt", RegisteredAt),
   Field("interests", Interests),
   Field("address", Address),
   Field("nullValue", JNull),
   Field("undefinedValue", Undefined),
   Field("profile", Profile)}

\* the attributes of a context: up to MaxAttributes properties with distinct keys
AttributeLists ==
  UNION {{fields \in [1..n -> ContextAttributes] :
            \A i, j \in 1..n : i # j => fields[i].key # fields[j].key} :
         n \in 0..MaxAttributes}

TargetingKeys == {<<>>, <<Field("targetingKey", JString(""))>>,
                  <<Field("targetingKey", JString("user-123"))>>}

\* contexts with the targeting key written first or last, or without one
TestContexts ==
  {JObject(key \o attributes) : key \in TargetingKeys, attributes \in AttributeLists}
    \cup
  {JObject(attributes \o key) : key \in TargetingKeys, attributes \in AttributeLists}

\* convertContextValueToString(value), called directly
ConvertValue ==
  /\ \E value \in ContextValues :
       last' = [op |-> "convertContextValueToString", value |-> value,
                returned |-> convertContextValueToString(value)]
  /\ UNCHANGED <<ctor, config, initializationTimeoutMs, client, clients, calls,
                 lifecycle, previous>>

\* evaluationContextToBKTUser(evaluationContext), called directly
ConvertContext ==
  /\ \E evaluationContext \in TestContexts :
       last' = [op |-> "evaluationContextToBKTUser", context |-> evaluationContext,
                result |-> evaluationContextToBKTUser(evaluationContext)]
  /\ UNCHANGED <<ctor, config, initializationTimeoutMs, client, clients, calls,
                 lifecycle, previous>>

NextContext ==
  \/ ConvertValue
  \/ ConvertContext

SpecContext == InitOverlapping /\ [][NextContext]_vars

(***************************************************************************)
(* Properties of initialize                                                *)
(***************************************************************************)
\* the timeout the caller asked for when constructing the provider
RequestedTimeout ==
  IF ctor.options = TimeoutOption(5000) THEN 5000
  ELSE IF ctor.options = TimeoutOption(0) THEN 0
  ELSE 60000

\* C1: initialize called with an absent (undefined or null) context rejects
\* with InvalidContextError; in that call no wrapped client is constructed, no
\* waitForInitialization is called, and the handle keeps the value it had.
C1_InitializeWithoutContext ==
  (last.op = "initialize" /\ last.context.kind \in {"undefined", "null"}) =>
    /\ last.outcome.status = "rejected"
    /\ last.outcome.error = "InvalidContextError"
    /\ last.built = NoClient
    /\ last.waits = <<>>
    /\ Len(clients) = last.builtBefore
    /\ last.clientAfter = last.clientBefore
    /\ client = last.clientBefore

\* initialize(undefined) on a provider that holds a client: it is rejected and
\* the client is still held
C1_Witness ==
  /\ last.op = "initialize"
  /\ last.context = Undefined
  /\ last.outcome.status = "rejected"
  /\ last.clientBefore # NoClient
  /\ client = last.clientBefore

\* C2: initialize with a context, when construction and the readiness wait both
\* succeed: the client is constructed from the stored configuration, the handle
\* is that client, waitForInitialization was called once on it with the timeout
\* given at construction (60000 when none was given), exactly Ready is emitted
\* and the call resolves.
C2_InitializeSucceeds ==
  (last.op = "initialize" /\ last.construction = Ok /\ last.wait = Ok) =>
    /\ last.built = last.builtBefore + 1
    /\ clients[last.built].config = config
    /\ last.clientAfter = last.built
    /\ client = last.built
    /\ last.waits = <<[client |-> last.built, timeout |-> RequestedTimeout]>>
    /\ clients[last.built].waits = <<RequestedTimeout>>
    /\ last.emitted = <<"Ready">>
    /\ last.outcome = Resolved

\* a successful initialize of a provider constructed with a timeout of 0
C2_Witness ==
  /\ last.op = "initialize"
  /\ last.construction = Ok
  /\ last.wait = Ok
  /\ ctor.options = TimeoutOption(0)
  /\ last.waits[1].timeout = 0
  /\ last.outcome = Resolved

\* C3: initialize whose readiness wait fails with an Error named TimeoutError:
\* exactly Ready is emitted (no Error), the call resolves, and the handle is the
\* client constructed in this call.
C3_InitializeTimeout ==
  (last.op = "initialize" /\ last.wait = TimeoutError) =>
    /\ last.emitted = <<"Ready">>
    /\ last.outcome = Resolved
    /\ last.built # NoClient
    /\ last.clientAfter = last.built
    /\ client = last.built

\* the second initialize of a provider times out: the handle is the new client
C3_Witness ==
  /\ last.op = "initialize"
  /\ last.wait = TimeoutError
  /\ last.emitted = <<"Ready">>
  /\ last.built = 2
  /\ client = 2

\* C4: initialize whose readiness wait fails with anything but a timeout error:
\* exactly Error is emitted (no Ready), the call rejects with ProviderFatalError,
\* and the handle still holds the client constructed in this call.
C4_InitializeFatal ==
  (last.op = "initialize" /\ last.wait \notin {Undefined, Ok, TimeoutError}) =>
    /\ last.emitted = <<"Error">>
    /\ last.outcome.status = "rejected"
    /\ last.outcome.error = "ProviderFatalError"
    /\ last.built # NoClient
    /\ last.clientAfter = last.built
    /\ client = last.built

\* the wait failed with "Init failed": rejected, and the handle is kept
C4_Witness ==
  /\ last.op = "initialize"
  /\ last.wait = InitFailed
  /\ last.outcome.status = "rejected"
  /\ last.outcome.message = "Failed to initialize Bucketeer client: Error: Init failed"
  /\ client = last.built
  /\ client # NoClient

(***************************************************************************)
(* Properties of the resolve methods                                       *)
(***************************************************************************)
Primitive(v) == v.kind \in {"string", "number", "boolean"}
Structured(v) == v.kind \in {"object", "array"}

\* the TYPE_MISMATCH outcome with the given value and message, returned
TypeMismatch(value, message) ==
  [status |-> "resolved",
   details |-> [value |-> value, reason |-> "ERROR", errorCode |-> "TYPE_MISMATCH",
                errorMessage |-> message]]

\* the call was made before the first initialize that constructed a client, or
\* after an onClose that cleared the handle and before the next such initialize
BeforeInitializeOrAfterClose == last.calledIn \in {"constructed", "closed"}

NotReadyRaised ==
  /\ last.outcome.status = "rejected"
  /\ last.outcome.error = "ProviderNotReadyError"
  /\ last.emitted = <<"Error">>
  /\ last.requests = <<>>

C6_DefaultGuard ==
  (/\ last.op = "resolveObjectEvaluation"
   /\ (last.defaultValue.kind = "null" \/ Primitive(last.defaultValue))) =>
    /\ last.outcome = TypeMismatch(last.defaultValue,
         "Default value must be an object or array but got " \o last.defaultValue.kind)
    /\ last.requests = <<>>
    /\ last.wrapped = Undefined

\* a null default on a provider that holds a client
C6_Witness ==
  /\ last.op = "resolveObjectEvaluation"
  /\ last.defaultValue = JNull
  /\ last.clientBefore # NoClient
  /\ last.outcome.details.errorMessage =
       "Default value must be an object or array but got null"
  /\ last.requests = <<>>

\* C7: resolveObjectEvaluation with an object or array default, when the wrapped
\* client returns null or a primitive: TYPE_MISMATCH with reason ERROR, the
\* default as value and the message "Expected object but got <null or the
\* primitive kind>", which says "object" for an array default too.
C7_ResultNotStructured ==
  (/\ last.op = "resolveObjectEvaluation"
   /\ Structured(last.defaultValue)
   /\ last.wrapped # Undefined
   /\ (last.wrapped.variationValue.kind = "null" \/ Primitive(last.wrapped.variationValue))) =>
    last.outcome = TypeMismatch(last.defaultValue,
      "Expected object but got " \o last.wrapped.variationValue.kind)

\* an array default and a null result
C7_Witness ==
  /\ last.op = "resolveObjectEvaluation"
  /\ last.defaultValue = ArrayDefault
  /\ last.wrapped # Undefined
  /\ last.wrapped.variationValue = JNull
  /\ last.outcome.details.errorMessage = "Expected object but got null"

\* C8: when the wrapped client returns an object for an array default, or an
\* array for an object default, the outcome is TYPE_MISMATCH with reason ERROR,
\* the default as value and the message "Expected <shape of the default> but got
\* <shape of the result>".
C8_ShapeAgreement ==
  (/\ last.op = "resolveObjectEvaluation"
   /\ Structured(last.defaultValue)
   /\ last.wrapped # Undefined
   /\ Structured(last.wrapped.variationValue)
   /\ last.wrapped.variationValue.kind # last.defaultValue.kind) =>
    last.outcome = TypeMismatch(last.defaultValue,
      "Expected " \o last.defaultValue.kind \o " but got " \o
        last.wrapped.variationValue.kind)

\* the array default ["a","b"] and an object result
C8_Witness ==
  /\ last.op = "resolveObjectEvaluation"
  /\ last.defaultValue = ArrayDefault
  /\ last.wrapped # Undefined
  /\ last.wrapped.variationValue = NestedObject
  /\ last.outcome.details.errorMessage = "Expected array but got object"
  /\ last.outcome.details.value = ArrayDefault

\* the default is structured and the wrapped client returned a structured value
\* of the same shape
ShapesAgree ==
  /\ Structured(last.defaultValue)
  /\ last.wrapped # Undefined
  /\ Structured(last.wrapped.variationValue)
  /\ last.wrapped.variationValue.kind = last.defaultValue.kind

\* the call returned an outcome without error code
Succeeded ==
  /\ last.outcome.status = "resolved"
  /\ "errorCode" \notin DOMAIN last.outcome.details

\* C9: resolveObjectEvaluation returns a success outcome exactly when the
\* default is structured and the wrapped result is structured with the shape of
\* the default; the outcome is then {value, variant, reason} of the wrapped
\* result and nothing else, whatever the value contains.
C9_SuccessIffShapesAgree ==
  (last.op = "resolveObjectEvaluation") =>
    /\ Succeeded <=> ShapesAgree
    /\ Succeeded =>
         last.outcome.details = [value |-> last.wrapped.variationValue,
                                 variant |-> last.wrapped.variationName,
                                 reason |-> last.wrapped.reason]

\* an array of mixed element kinds is returned for the default ["a","b"]
C9_Witness ==
  /\ last.op = "resolveObjectEvaluation"
  /\ last.defaultValue = ArrayDefault
  /\ Succeeded
  /\ last.outcome.details.value = MixedArray
  /\ last.outcome.details.reason = "CLIENT"

\* the call ended in a validation failure: the default guard refused the
\* default, or the wrapped client answered and the shapes do not agree
ValidationFailed ==
  \/ ~Structured(last.defaultValue)
  \/ last.wrapped # Undefined /\ ~ShapesAgree

\* C10: a resolveObjectEvaluation call that ends in a validation failure returns
\* an outcome (it does not throw) with reason ERROR, errorCode TYPE_MISMATCH, no
\* variant, and the caller's default as value, not the wrapped client's value.
C10_FailureKeepsDefault ==
  (last.op = "resolveObjectEvaluation" /\ ValidationFailed) =>
    /\ last.outcome.status = "resolved"
    /\ DOMAIN last.outcome.details = {"value", "reason", "errorCode", "errorMessage"}
    /\ last.outcome.details.reason = "ERROR"
    /\ last.outcome.details.errorCode = "TYPE_MISMATCH"
    /\ last.outcome.details.value = last.defaultValue
    /\ last.wrapped # Undefined =>
         last.outcome.details.value # last.wrapped.variationValue

\* the wrapped client returned a string for the default {default: true}
C10_Witness ==
  /\ last.op = "resolveObjectEvaluation"
  /\ last.defaultValue = ObjectDefault
  /\ last.wrapped # Undefined
  /\ last.wrapped.variationValue = JString("not-an-object")
  /\ last.outcome.details.value = ObjectDefault
  /\ last.outcome.details.errorCode = "TYPE_MISMATCH"

(***************************************************************************)
(* Properties of the boolean, string and number methods                    *)
(***************************************************************************)
PrimitiveOps ==
  {"resolveBooleanEvaluation", "resolveStringEvaluation", "resolveNumberEvaluation"}

\* the context carries a targeting key that is not empty
HasTargetingKey(context) ==
  \E i \in 1..Len(context.fields) :
    /\ context.fields[i].key = "targetingKey"
    /\ context.fields[i].value.kind = "string"
    /\ context.fields[i].value.str # ""

\* the user the wrapped client is to receive for the context of the tests
ExpectedUser(context) ==
  [id |-> Prop(context, "targetingKey"),
   data |-> [key \in ContextKeys(context) \ {"targetingKey"} |->
               convertContextValueToString(Prop(context, key))]]

\* C11: a boolean, string or number call on a provider that holds a client,
\* with a context that has a targeting key, sends exactly one request, to the
\* operation of its kind on the held client, with the user of the context, the
\* flag key and the default value; when the wrapped client answers, the call
\* returns exactly {value: variationValue, variant: variationName, reason} of
\* the answer, whatever the kind of the value; and no call of these three
\* methods returns a TYPE_MISMATCH outcome.
C11_PrimitiveForwarding ==
  (last.op \in PrimitiveOps) =>
    /\ (last.outcome.status = "resolved") =>
         "errorCode" \notin DOMAIN last.outcome.details
    /\ (last.clientBefore # NoClient /\ HasTargetingKey(last.context)) =>
         /\ last.requests =
              <<[client |-> last.clientBefore, method |-> VariationMethod(last.op),
                 user |-> ExpectedUser(last.context), flagKey |-> last.flagKey,
                 defaultValue |-> last.defaultValue]>>
         /\ last.wrapped # Undefined =>
              /\ last.outcome.status = "resolved"
              /\ last.outcome.details =
                   [value |-> last.wrapped.variationValue,
                    variant |-> last.wrapped.variationName,
                    reason |-> last.wrapped.reason]

\* resolveBooleanEvaluation for which the wrapped client answered a string: the
\* string is returned, and the user sent is the one the unit test expects
C11_Witness ==
  /\ last.op = "resolveBooleanEvaluation"
  /\ last.defaultValue = JBoolean(FALSE)
  /\ last.wrapped # Undefined
  /\ last.wrapped.variationValue = JString("not-an-object")
  /\ last.outcome.details.value = JString("not-an-object")
  /\ last.requests[1].method = "booleanVariationDetails"
  /\ last.requests[1].user.id = JString("test-user")
  /\ last.requests[1].user.data["age"] = "30"

(***************************************************************************)
(* Properties of the targeting key                                         *)
(***************************************************************************)
TargetingKeyMissingRaised ==
  /\ last.outcome.status = "rejected"
  /\ last.outcome.error = "TargetingKeyMissingError"
  /\ last.requests = <<>>

\* InvalidContextError is raised by initialize with an absent context only
InvalidContextOnlyFromInitialize ==
  (last.op # "none" /\ last.outcome.status = "rejected"
     /\ last.outcome.error = "InvalidContextError") =>
    /\ last.op = "initialize"
    /\ last.context.kind \in {"undefined", "null"}

\* C12 as stated: any resolve call on a provider that holds a client, with a
\* context without targeting key or with an empty one, raises
\* TargetingKeyMissingError and sends no request.
C12_AnyResolve ==
  (last.op \in ResolveOps /\ last.clientBefore # NoClient
     /\ ~HasTargetingKey(last.context)) =>
    TargetingKeyMissingRaised

\* C12: a resolve call on a provider that holds a client, with a context without
\* targeting key or with an empty one, raises TargetingKeyMissingError and sends
\* no request, unless it is resolveObjectEvaluation with a null or primitive
\* default: that call returns the TYPE_MISMATCH outcome of the default guard and
\* sends no request either.  InvalidContextError is another error: only
\* initialize with an absent context raises it.
C12_TargetingKeyMissing ==
  /\ (last.op \in ResolveOps /\ last.clientBefore # NoClient
        /\ ~HasTargetingKey(last.context)) =>
       IF last.op = "resolveObjectEvaluation" /\ ~Structured(last.defaultValue)
         THEN /\ last.outcome.status = "resolved"
              /\ last.outcome.details.errorCode = "TYPE_MISMATCH"
              /\ last.requests = <<>>
         ELSE TargetingKeyMissingRaised
  /\ InvalidContextOnlyFromInitialize

\* resolveStringEvaluation with an empty targeting key on a provider that holds
\* a client
C12_Witness ==
  /\ last.op = "resolveStringEvaluation"
  /\ last.context = EmptyKeyContext
  /\ last.clientBefore # NoClient
  /\ TargetingKeyMissingRaised

(***************************************************************************)
(* Properties of the handle                                                *)
(***************************************************************************)
\* C13: after onClose the handle is absent whatever client.destroy() did, and
\* when a client was held destroy was called on it exactly once.
C13_CloseClearsHandle ==
  (last.op = "onClose") =>
    /\ last.clientAfter = NoClient
    /\ client = NoClient
    /\ last.destroyed =
         (IF last.clientBefore = NoClient THEN <<>> ELSE <<last.clientBefore>>)

\* C14: the handle is absent before a successful initialization and after
\* teardown: before the first call, while the first initialize still waits,
\* after an initialize that failed on a provider without handle, and after
\* onClose.
C14_HandleOnlyWhenInitialized ==
  /\ lifecycle = "constructed" => client = NoClient
  /\ (\E s \in Slots : /\ calls[s].pc = "waitForInitialization"
                       /\ calls[s].clientBefore = NoClient) => client = NoClient
  /\ (last.op = "initialize" /\ last.outcome.status = "rejected"
        /\ last.clientBefore = NoClient) => client = NoClient
  /\ last.op = "onClose" => client = NoClient

\* the wrapped clients constructed and not destroyed
LiveClients == {i \in 1..Len(clients) : clients[i].destroyed = 0}

\* C15: at most one wrapped client is constructed and not yet destroyed.
C15_OneLiveClient == Cardinality(LiveClients) <= 1

(***************************************************************************)
(* Properties of the failure paths                                         *)
(***************************************************************************)
\* the call that settled last raised the named error
Raised(error) ==
  /\ last.op # "none"
  /\ last.outcome.status = "rejected"
  /\ last.outcome.error = error

\* the call that settled last returned a TYPE_MISMATCH outcome
ReturnedTypeMismatch ==
  /\ last.op \in ResolveOps
  /\ last.outcome.status = "resolved"
  /\ "errorCode" \in DOMAIN last.outcome.details
  /\ last.outcome.details.errorCode = "TYPE_MISMATCH"

\* C16 as stated: a call that ends in InvalidContextError, ProviderFatalError,
\* ProviderNotReadyError, TargetingKeyMissingError or a TYPE_MISMATCH outcome
\* has emitted the Error signal.
C16_EveryFailureEmitsError ==
  (\/ Raised("InvalidContextError")
   \/ Raised("ProviderFatalError")
   \/ Raised("ProviderNotReadyError")
   \/ Raised("TargetingKeyMissingError")
   \/ ReturnedTypeMismatch) =>
    last.emitted = <<"Error">>

\* C16: a call that ends in ProviderFatalError or ProviderNotReadyError has
\* emitted exactly the Error signal; a call that ends in InvalidContextError,
\* TargetingKeyMissingError or a TYPE_MISMATCH outcome has emitted no signal.
C16_WhichFailuresEmitError ==
  /\ (Raised("ProviderFatalError") \/ Raised("ProviderNotReadyError")) =>
       last.emitted = <<"Error">>
  /\ (\/ Raised("InvalidContextError")
      \/ Raised("TargetingKeyMissingError")
      \/ ReturnedTypeMismatch) =>
       last.emitted = <<>>

\* initialize failed fatally and the Error signal was emitted
C16_Witness ==
  /\ last.op = "initialize"
  /\ last.wait = InitFailed
  /\ Raised("ProviderFatalError")
  /\ last.emitted = <<"Error">>

WrapperFields == {"wrapperSdkVersion", "wrapperSdkSourceId"}

\* C18: every wrapped client was constructed from a configuration whose wrapper
\* version is the version of the provider and whose wrapper source id is 104,
\* whatever the caller gave for the two fields, and in which every other field
\* the caller gave has the caller's value.
C18_WrapperIdentity ==
  \A i \in 1..Len(clients) :
    /\ clients[i].config.wrapperSdkVersion = SDK_VERSION
    /\ clients[i].config.wrapperSdkSourceId = 104
    /\ clients[i].config.sdkVersion = SDK_VERSION
    /\ clients[i].config.sourceId = 104
    /\ \A k \in DOMAIN ctor.config \ WrapperFields :
         /\ k \in DOMAIN clients[i].config
         /\ clients[i].config[k] = ctor.config[k]

\* the second initialize of a provider whose caller set the two wrapper fields
\* and enableLocalEvaluation
C18_Witness ==
  /\ ctor.config = SpoofedConfig
  /\ ctor.config.wrapperSdkSourceId = 1
  /\ Len(clients) = 2
  /\ clients[2].config.wrapperSdkSourceId = 104
  /\ clients[2].config.wrapperSdkVersion = SDK_VERSION
  /\ clients[2].config.enableLocalEvaluation = TRUE

(***************************************************************************)
(* Properties of the gate                                                  *)
(***************************************************************************)
\* C19: a resolve call sends a request to a wrapped client only when it is
\* called after an initialize that ended with Ready and before the next
\* onClose: not while initialize still waits, not after an initialize that
\* failed fatally, not after onClose.
C19_NoRequestUnlessReady ==
  (last.op \in ResolveOps /\ last.requests # <<>>) => last.calledIn = "ready"

(***************************************************************************)
(* Properties of repeated calls                                            *)
(***************************************************************************)
\* the resolve call of last was made right after a resolve call with the same
\* method, flag key, default and context settled, on a provider holding a client
SameCallTwice ==
  /\ last.op \in ResolveOps
  /\ previous.op = last.op
  /\ previous.flagKey = last.flagKey
  /\ previous.defaultValue = last.defaultValue
  /\ previous.context = last.context
  /\ previous.clientBefore # NoClient

GuardMessages ==
  {prefix \o kind :
     prefix \in {"Default value must be an object or array but got ",
                 "Default value must be a plain object but got "},
     kind \in {"null", "string", "number", "boolean", "array", "object"}}

LifecycleState(l) ==
  CASE l \in {"constructed", "closed"} -> "Uninitialized"
    [] l = "initialize" -> "Initializing"
    [] l = "ready" -> "Ready"
    [] l = "failed" -> "Failed"
    [] l = "closeFailed" -> "CloseFailed"

\* C22 as stated: the only changes of state are Uninitialized -> Initializing,
\* Initializing -> Ready, Initializing -> Failed and Ready -> Uninitialized;
\* nothing leaves Failed.  The steps into and out of the state an onClose with
\* a failed destroy leaves are not counted.
C22_OnlyDocumentedTransitions ==
  [][LET from == LifecycleState(lifecycle)
         to == LifecycleState(lifecycle')
     IN  (from # to /\ "CloseFailed" \notin {from, to}) =>
           <<from, to>> \in {<<"Uninitialized", "Initializing">>,
                             <<"Initializing", "Ready">>,
                             <<"Initializing", "Failed">>,
                             <<"Ready", "Uninitialized">>}]_vars

\* C22: the state changes in these ways only, from every state: an initialize
\* constructs a client, makes it the handle and the provider Initializing; the
\* end of the wait makes an Initializing provider Ready or Failed and leaves
\* the handle; an onClose whose destroy returned clears the handle and makes the
\* provider Uninitialized; an onClose whose destroy threw leaves the handle.
C22_Transitions ==
  [][lifecycle' # lifecycle =>
       \/ /\ lifecycle' = "initialize"
          /\ Len(clients') = Len(clients) + 1
          /\ client' = Len(clients')
       \/ /\ lifecycle = "initialize"
          /\ lifecycle' \in {"ready", "failed"}
          /\ UNCHANGED <<client, clients>>
       \/ /\ lifecycle' = "closed"
          /\ client' = NoClient
       \/ /\ lifecycle' = "closeFailed"
          /\ client # NoClient
          /\ client' = client]_vars

\* Ready or Failed was left without onClose: a second initialize, made while
\* the first client was the handle, ended Ready with a second client
C22_Witness ==
  /\ lifecycle = "ready"
  /\ last.op = "initialize"
  /\ last.clientBefore = 1
  /\ client = 2
  /\ clients[1].destroyed = 0
  /\ clients[1].waits = clients[2].waits

(***************************************************************************)
(* Frame of the resolve methods                                            *)
(***************************************************************************)
\* a step in which a resolve call is made, resumes or ends
ResolveStep ==
  \/ last'.op \in ResolveOps /\ last' # last
  \/ \E s \in Slots :
       /\ calls'[s] # calls[s]
       /\ calls'[s].pc = "variationDetails" \/ calls[s].pc = "variationDetails"

\* C23: a step of a resolve call, however the call ends, leaves the handle, the
\* stored configuration and timeout and the wrapped clients as they are; the
\* handle is set only by an initialize that constructs a client and becomes
\* absent only in an onClose; the stored configuration never changes.
C23_ResolveReadOnly ==
  [][/\ ResolveStep => UNCHANGED <<client, clients, config, initializationTimeoutMs>>
     /\ client' # client =>
          IF client' = NoClient
            THEN last'.op = "onClose"
            ELSE /\ Len(clients') = Len(clients) + 1
                 /\ client' = Len(clients')
                 /\ \E s \in Slots : /\ calls[s] = Idle
                                     /\ calls'[s].pc = "waitForInitialization"
     /\ config' = config]_vars

\* a resolve call that threw for the targeting key on a provider holding a
\* client: the handle and the configuration are what they were
C23_Witness ==
  /\ last.op \in ResolveOps
  /\ Raised("TargetingKeyMissingError")
  /\ last.clientBefore # NoClient
  /\ last.clientAfter = last.clientBefore
  /\ client = last.clientBefore
  /\ config = OverrideConfig(ctor.config)

(***************************************************************************)
(* Order of the checks of a resolve call                                   *)
(***************************************************************************)
\* resolveObjectEvaluation was called with a null or primitive default
GuardApplies ==
  last.op = "resolveObjectEvaluation" /\ ~Structured(last.defaultValue)

\* C24: in a resolve call the default guard of object evaluation comes first,
\* readiness second, the targeting key third.  An object call with a null or
\* primitive default returns the TYPE_MISMATCH outcome of the guard and emits
\* nothing, with or without handle and targeting key; any other call without
\* handle raises ProviderNotReadyError and emits Error, with or without
\* targeting key; any other call with a handle and without targeting key raises
\* TargetingKeyMissingError and emits nothing.
C24_ErrorPrecedence ==
  (last.op \in ResolveOps) =>
    /\ GuardApplies =>
         /\ last.outcome.status = "resolved"
         /\ last.outcome.details.errorCode = "TYPE_MISMATCH"
         /\ last.outcome.details.errorMessage =
              "Default value must be an object or array but got "
                \o last.defaultValue.kind
         /\ last.emitted = <<>>
         /\ last.requests = <<>>
    /\ (~GuardApplies /\ last.clientBefore = NoClient) =>
         /\ Raised("ProviderNotReadyError")
         /\ last.emitted = <<"Error">>
         /\ last.requests = <<>>
    /\ (~GuardApplies /\ last.clientBefore # NoClient
          /\ ~HasTargetingKey(last.context)) =>
         /\ Raised("TargetingKeyMissingError")
         /\ last.emitted = <<>>
         /\ last.requests = <<>>

\* resolveObjectEvaluation with an object default, without handle and without
\* targeting key: ProviderNotReadyError and the Error signal
C24_Witness ==
  /\ last.op = "resolveObjectEvaluation"
  /\ last.defaultValue = ObjectDefault
  /\ last.clientBefore = NoClient
  /\ last.context = NoKeyContext
  /\ Raised("ProviderNotReadyError")
  /\ last.emitted = <<"Error">>

(***************************************************************************)
(* Properties of the signals of initialize                                 *)
(***************************************************************************)
\* C25: an initialize that emitted Ready constructed a client, and when it
\* settles the handle is that client.
C25_ReadyImpliesHandle ==
  (last.op = "initialize" /\ last.emitted = <<"Ready">>) =>
    /\ last.built # NoClient
    /\ last.clientAfter = last.built
    /\ client = last.built

\* C26: an initialize with a context emits exactly one signal: Ready when it
\* resolves and only then, Error when it rejects with ProviderFatalError and
\* only then, and it settles in one of these two ways; an initialize without
\* context emits no signal.
C26_OneSignal ==
  (last.op = "initialize") =>
    IF last.context.kind \in {"undefined", "null"}
      THEN last.emitted = <<>>
      ELSE /\ last.emitted \in {<<"Ready">>, <<"Error">>}
           /\ last.emitted = <<"Ready">> <=> last.outcome = Resolved
           /\ last.emitted = <<"Error">> <=>
                /\ last.outcome.status = "rejected"
                /\ last.outcome.error = "ProviderFatalError"

\* the construction of the client threw: one Error signal, ProviderFatalError
C26_Witness ==
  /\ last.op = "initialize"
  /\ last.context = UserContext
  /\ last.construction = InitFailed
  /\ last.built = NoClient
  /\ last.emitted = <<"Error">>
  /\ last.outcome.error = "ProviderFatalError"

(***************************************************************************)
(* onClose during an evaluation                                            *)
(***************************************************************************)
\* the resolve call of last sent its request to the client it found, and the
\* handle was cleared before the wrapped client settled the request
ClosedWhileEvaluating ==
  /\ last.op \in ResolveOps
  /\ last.clientBefore # NoClient
  /\ Len(last.requests) = 1
  /\ last.clientAfter = NoClient
  /\ clients[last.clientBefore].destroyed > 0

\* C27: a resolve call whose request was pending when onClose destroyed the
\* client and cleared the handle had sent the request to the client it found;
\* it ends with what the wrapped client settled the request with: the answer,
\* projected for boolean, string and number and validated against the default
\* for object, or the rejection.  It does not raise ProviderNotReadyError and
\* emits no signal.
C27_CapturedClient ==
  ClosedWhileEvaluating =>
    /\ last.requests[1].client = last.clientBefore
    /\ ~Raised("ProviderNotReadyError")
    /\ last.emitted = <<>>
    /\ IF last.wrapped = Undefined
         THEN last.outcome = Rejected(EvalFailed.name, EvalFailed.message)
         ELSE /\ last.outcome.status = "resolved"
              /\ last.outcome.details.value \in
                   {last.wrapped.variationValue, last.defaultValue}
              /\ Succeeded <=> (last.op \in PrimitiveOps \/ ShapesAgree)
              /\ Succeeded =>
                   last.outcome.details =
                     [value |-> last.wrapped.variationValue,
                      variant |-> last.wrapped.variationName,
                      reason |-> last.wrapped.reason]
              /\ ~Succeeded =>
                   /\ last.outcome.details.errorCode = "TYPE_MISMATCH"
                   /\ last.outcome.details.value = last.defaultValue

\* resolveObjectEvaluation whose client was destroyed during the evaluation and
\* then answered the nested object: the call returns it
C27_Witness ==
  /\ ClosedWhileEvaluating
  /\ last.op = "resolveObjectEvaluation"
  /\ last.wrapped # Undefined
  /\ last.wrapped.variationValue = NestedObject
  /\ last.outcome.details.value = NestedObject
  /\ client = NoClient

\* C28: onClose is idempotent: called while no handle is present it calls no
\* destroy, emits no signal, resolves and leaves the handle absent; and no
\* constructed client has destroy called on it more than once.
C28_CloseIdempotent ==
  /\ (last.op = "onClose" /\ last.clientBefore = NoClient) =>
       /\ last.destroyed = <<>>
       /\ last.emitted = <<>>
       /\ last.outcome = Resolved
       /\ client = NoClient
  /\ \A i \in DOMAIN clients : clients[i].destroyed <= 1

(***************************************************************************)
(* Properties of the context conversion                                    *)
(***************************************************************************)
\* the string JavaScript gives for each value of the unit tests: '' for null and
\* undefined, toISOString() for the Date, JSON.stringify for arrays and
\* objects, String for the other primitives
StringForm(value) ==
  CASE value = JNull -> ""
    [] value = Undefined -> ""
    [] value = RegisteredAt -> "2023-01-01T00:00:00.000Z"
    [] value = Interests -> "[\"sports\",\"music\",\"books\"]"
    [] value = Address -> "{\"city\":\"San Francisco\",\"country\":\"USA\"}"
    [] value = Complex -> "{\"arr\":[1,2,3],\"nested\":{\"a\":1,\"b\":true}}"
    [] value = Profile ->
         "{\"details\":{\"preferences\":[\"dark mode\",\"notifications\"]," \o
         "\"settings\":{\"theme\":\"dark\",\"notifications\":true}}," \o
         "\"lastLogin\":\"2023-01-01T00:00:00.000Z\"}"
    [] value = JNumber(123) -> "123"
    [] value = JNumber(30) -> "30"
    [] value = JBoolean(TRUE) -> "true"
    [] value = JBoolean(FALSE) -> "false"
    [] value = JString("already a string") -> "already a string"
    [] value = JString("user@example.com") -> "user@example.com"

\* C29: evaluationContextToBKTUser maps a context with a targeting key to a user
\* whose id is the targeting key and whose data has exactly the other keys of
\* the context, never the key targetingKey, each with its value as a string:
\* the empty string for null and undefined, the ISO string of a Date, the JSON
\* text of an array or an object, the String form of another primitive.
C29_ContextToUser ==
  /\ (last.op = "evaluationContextToBKTUser" /\ HasTargetingKey(last.context)) =>
       /\ ~last.result.threw
       /\ last.result.user.id = Prop(last.context, "targetingKey")
       /\ DOMAIN last.result.user.data =
            {last.context.fields[i].key : i \in 1..Len(last.context.fields)}
              \ {"targetingKey"}
       /\ \A i \in 1..Len(last.context.fields) :
            LET field == last.context.fields[i]
            IN  field.key # "targetingKey" =>
                  last.result.user.data[field.key] = StringForm(field.value)
  /\ (last.op = "convertContextValueToString") =>
       last.returned = StringForm(last.value)

\* a context with the targeting key written last, a null and an object
\* attribute, was converted
C29_Witness ==
  /\ last.op = "evaluationContextToBKTUser"
  /\ last.context =
       JObject(<<Field("nullValue", JNull), Field("address", Address),
                 Field("targetingKey", JString("user-123"))>>)
  /\ ~last.result.threw
  /\ last.result.user.id = JString("user-123")
  /\ DOMAIN last.result.user.data = {"nullValue", "address"}
  /\ last.result.user.data["nullValue"] = ""

====
